---- MODULE Spec2Model ----
(***************************************************************************)
(* Cloud fridge energy monitor (dashboard.py): startup, the polling loop,  *)
(* the CSV reading log and the trapezoidal energy accumulator              *)
(* calculate_total_kwh.                                                    *)
(*                                                                         *)
(* Numbers.  Python floats are modelled exactly:                           *)
(*   - a reading's power_w / voltage_v is a one-decimal number             *)
(*     [int |-> whole part, frac10 |-> tenths digit] (raw / 10.0);         *)
(*   - the pandas columns time_diff, avg_power, energy_joules and the      *)
(*     totals are rationals [num, den] in lowest terms; den = 0 is NaN.    *)
(* Timestamps are seconds; a timestamp cell is either the text the CSV     *)
(* holds ("str") or a parsed pandas Timestamp ("datetime64").              *)
(***************************************************************************)
EXTENDS Integers, Sequences, FiniteSets, TLC

VARIABLES
    pc,           \* position of the script
    energy_log,   \* the file DATA_FILE: [exists, header, rows]
    response,     \* last value returned by openapi.get
    reading,      \* locals power, voltage, current of the iteration
    exc,          \* exception in flight inside the loop's try block
    df,           \* the caller's DataFrame (the object handed to calculate_total_kwh)
    total_kwh,    \* last value returned by calculate_total_kwh
    banner,       \* top-level st.error shown by the startup code
    placeholder,  \* content of the st.empty() placeholder
    df_before,    \* history: the frame as it was when calculate_total_kwh was called
    other         \* a second call of calculate_total_kwh, to compare with

vars == <<pc, energy_log, response, reading, exc, df, total_kwh, banner,
          placeholder, df_before, other>>

-----------------------------------------------------------------------------
(* Bounds *)

MaxLen  == 3     \* rows of a frame handed to calculate_total_kwh directly
MaxLog  == 2     \* rows the log file may grow to in the program
MaxTick == 2     \* timestamps of such a frame are 0, 10, ..., 10 * MaxTick seconds
MaxClock == 1    \* datetime.now() in the program is 0, 10, ..., 10 * MaxClock seconds

Times == {10 * k : k \in 0..MaxTick}

\* datetime.now() is the wall clock: nothing makes it increase between polls
Clock == {10 * k : k \in 0..MaxClock}

\* raw 'cur_power' values a device reports (tenths of a watt)
RawPowers == {0, 1000}

-----------------------------------------------------------------------------
(* Numbers *)

Abs(n) == IF n < 0 THEN -n ELSE n

RECURSIVE GCD(_, _)
GCD(a, b) == IF b = 0 THEN a ELSE GCD(b, a % b)

NaN == [num |-> 0, den |-> 0]
IsNaN(x) == x.den = 0

\* a rational in lowest terms with a positive denominator
Reduce(x) ==
    LET g == GCD(Abs(x.num), x.den)
    IN  [num |-> x.num \div g, den |-> x.den \div g]

Rat(n, d) == Reduce([num |-> n, den |-> d])

Zero == [num |-> 0, den |-> 1]      \* the float 0.0

RatAdd(a, b) == Rat(a.num * b.den + b.num * a.den, a.den * b.den)

\* float * float, NaN if either is NaN
RatMul(a, b) ==
    IF IsNaN(a) \/ IsNaN(b) THEN NaN ELSE Rat(a.num * b.num, a.den * b.den)

\* float / int
RatDivInt(a, n) == IF IsNaN(a) THEN NaN ELSE Rat(a.num, a.den * n)

\* a one-decimal float as a rational
FloatRat(x) == Rat(10 * x.int + x.frac10, 10)

-----------------------------------------------------------------------------
(* Cells, rows, frames *)

Str(t)      == [type |-> "str", t |-> t]
Datetime(t) == [type |-> "datetime64", t |-> t]

\* raw / 10.0
Div10(raw) == [int |-> raw \div 10, frac10 |-> raw % 10]

Row(ts, p, v, c) ==
    [timestamp |-> ts, power_w |-> p, voltage_v |-> v, current_ma |-> c]

-----------------------------------------------------------------------------
(* pandas column operations used by calculate_total_kwh *)

\* pd.to_datetime(df['timestamp']) assigned back into df['timestamp']
to_datetime(frame) ==
    [i \in 1..Len(frame) |->
        [frame[i] EXCEPT !.timestamp = Datetime(frame[i].timestamp.t)]]

\* the orderings of n rows; no frame of the model has more than MaxLen + 1 rows
Orderings == [n \in 0..(MaxLen + 1) |-> Permutations(1..n)]

Arrangements(frame) ==
    {[i \in 1..Len(frame) |-> frame[p[i]]] : p \in Orderings[Len(frame)]}

Ascending(frame) ==
    \A i \in 1..(Len(frame) - 1) : frame[i].timestamp.t <= frame[i + 1].timestamp.t

\* variant: the frame is left in input order
sort_values_unsorted(frame) == {frame}

\* variant: ascending=False
sort_values_descending(frame) ==
    {[i \in 1..Len(frame) |-> frame[p[i]]] :
        p \in {q \in Orderings[Len(frame)] :
                 \A i \in 1..(Len(frame) - 1) :
                    frame[q[i]].timestamp.t >= frame[q[i + 1]].timestamp.t}}

\* df.sort_values('timestamp'): the default kind is quicksort, which is not
\* stable, so rows with equal timestamps may come out in any order.
sort_values(frame) ==
    {[i \in 1..Len(frame) |-> frame[p[i]]] :
        p \in {q \in Orderings[Len(frame)] :
                 \A i \in 1..(Len(frame) - 1) :
                    frame[q[i]].timestamp.t <= frame[q[i + 1]].timestamp.t}}

\* variant: diff(-1), previous minus current
diff_reversed(frame) ==
    [i \in 1..Len(frame) |->
        IF i = 1 THEN NaN
        ELSE Rat(frame[i - 1].timestamp.t - frame[i].timestamp.t, 1)]

\* df['timestamp'].diff().dt.total_seconds(): NaN in the first row
diff_total_seconds(frame) ==
    [i \in 1..Len(frame) |->
        IF i = 1 THEN NaN
        ELSE Rat(frame[i].timestamp.t - frame[i - 1].timestamp.t, 1)]

\* variant: rolling(window=2).sum()
rolling_sum(frame) ==
    [i \in 1..Len(frame) |->
        IF i = 1 THEN NaN
        ELSE RatAdd(FloatRat(frame[i - 1].power_w), FloatRat(frame[i].power_w))]

\* df['power_w'].rolling(window=2).mean(): NaN in the first row
rolling_mean(frame) ==
    [i \in 1..Len(frame) |->
        IF i = 1 THEN NaN
        ELSE RatDivInt(RatAdd(FloatRat(frame[i - 1].power_w),
                              FloatRat(frame[i].power_w)), 2)]

\* Series.sum(): NaN entries are skipped, the empty sum is 0.0
RECURSIVE nansum(_)
nansum(col) ==
    IF Len(col) = 0 THEN Zero
    ELSE IF IsNaN(col[Len(col)]) THEN nansum(SubSeq(col, 1, Len(col) - 1))
    ELSE RatAdd(nansum(SubSeq(col, 1, Len(col) - 1)), col[Len(col)])

\* lines 58-62 on the sorted copy
kwh_of_sorted(s) ==
    LET time_diff     == diff_total_seconds(s)
        avg_power     == rolling_mean(s)
        energy_joules == [i \in 1..Len(s) |-> RatMul(avg_power[i], time_diff[i])]
        total_joules  == nansum(energy_joules)
    IN  RatDivInt(total_joules, 3600000)

\* variant: a single reading integrated over an assumed 30 s interval
calculate_total_kwh_assumed_interval(frame) ==
    IF Len(frame) = 0 THEN {Zero}
    ELSE IF Len(frame) = 1
         THEN {RatDivInt(RatMul(FloatRat(frame[1].power_w), Rat(30, 1)), 3600000)}
    ELSE {kwh_of_sorted(s) : s \in sort_values(to_datetime(frame))}

\* calculate_total_kwh(df): the values the call may return
calculate_total_kwh(frame) ==
    IF Len(frame) < 2 THEN {Zero}
    ELSE {kwh_of_sorted(s) : s \in sort_values(to_datetime(frame))}

\* the caller's frame after the call: line 56 assigns into the frame passed in,
\* line 57 rebinds the local name to a sorted copy
caller_frame_after(frame) ==
    IF Len(frame) < 2 THEN frame ELSE to_datetime(frame)

-----------------------------------------------------------------------------
(* The accumulator on its own: every frame of up to MaxLen rows *)

\* rows as pd.read_csv yields them: the timestamp is text
CsvRows ==
    {Row(Str(t), Div10(p), Div10(2301), 1500) : t \in Times, p \in RawPowers}

RECURSIVE FramesOfLen(_)
FramesOfLen(n) ==
    IF n = 0 THEN {<<>>}
    ELSE {Append(f, r) : f \in FramesOfLen(n - 1), r \in CsvRows}

Frames == UNION {FramesOfLen(n) : n \in 0..MaxLen}

NoOther == [kind |-> "none", arg |-> <<>>, ret |-> Zero]
NoResponse == [kind |-> "none"]
NoReading == [power |-> Div10(0), voltage |-> Div10(0), current |-> 0]
NoContent == [kind |-> "empty"]
NoFile == [exists |-> FALSE, header |-> <<>>, rows |-> <<>>]

CalcInit ==
    /\ pc = "call"
    /\ df \in Frames
    /\ df_before = <<>>
    /\ total_kwh = Zero
    /\ other = NoOther
    /\ energy_log = NoFile
    /\ response = NoResponse
    /\ reading = NoReading
    /\ exc = "none"
    /\ banner = "none"
    /\ placeholder = NoContent

CalcFrame == <<energy_log, response, reading, exc, banner, placeholder>>

\* total_kwh = calculate_total_kwh(df)
CalcCall ==
    /\ pc = "call"
    /\ total_kwh' \in calculate_total_kwh(df)
    /\ df' = caller_frame_after(df)
    /\ df_before' = df
    /\ pc' = "returned"
    /\ UNCHANGED <<other, CalcFrame>>

\* the same readings supplied pre-sorted by timestamp
CallPresorted ==
    /\ pc = "returned"
    /\ \E s \in {a \in Arrangements(df_before) : Ascending(a)} :
         \E r \in calculate_total_kwh(s) :
            other' = [kind |-> "presorted", arg |-> s, ret |-> r]
    /\ pc' = "compared"
    /\ UNCHANGED <<df, df_before, total_kwh, CalcFrame>>

\* the same log with one more reading, stamped after the log's last row
CallAppended ==
    /\ pc = "returned"
    /\ \E row \in CsvRows :
         /\ Len(df_before) > 0 =>
               row.timestamp.t > df_before[Len(df_before)].timestamp.t
         /\ \E r \in calculate_total_kwh(Append(df_before, row)) :
               other' = [kind |-> "appended", arg |-> Append(df_before, row),
                         ret |-> r]
    /\ pc' = "compared"
    /\ UNCHANGED <<df, df_before, total_kwh, CalcFrame>>

CalcNext == CalcCall \/ CallPresorted \/ CallAppended

CalcSpec == CalcInit /\ [][CalcNext]_vars

-----------------------------------------------------------------------------
(* The script: startup *)

POWER_CODE   == "cur_power"
VOLTAGE_CODE == "cur_voltage"
CURRENT_CODE == "cur_current"

Columns == <<"timestamp", "power_w", "voltage_v", "current_ma">>

Item(c, v) == [code |-> c, value |-> v]

\* 'result' lists a device may answer with
StatusResults ==
    { <<Item("cur_power", 235), Item("cur_voltage", 2301), Item("cur_current", 1500)>>,
      <<Item("cur_voltage", 2301), Item("cur_current", 1500)>>,
      <<Item("cur_power", 0), Item("cur_power", 1000)>> }

\* what openapi.get may return
Responses ==
    {[success |-> TRUE, result |-> r] : r \in StatusResults}
    \cup {[success |-> FALSE, msg |-> "token invalid"], [code |-> 1010]}
    \cup {[success |-> TRUE], [success |-> TRUE, result |-> <<[code |-> "cur_power"]>>]}

\* the exceptions of the model that derive from Exception (KeyboardInterrupt
\* derives from BaseException only)
ExceptionClasses == {"ConnectionError", "KeyError", "OSError"}

\* variant: st.stop() returns to the caller
st_stop_returns(next) == next

\* st.stop(): the script run ends here; the statement after it is never reached
st_stop(next) == "stopped"

Init ==
    /\ pc = "secrets"
    /\ energy_log = NoFile
    /\ response = NoResponse
    /\ reading = NoReading
    /\ exc = "none"
    /\ df = <<>>
    /\ total_kwh = Zero
    /\ banner = "none"
    /\ placeholder = NoContent
    /\ df_before = <<>>
    /\ other = NoOther

Locals == <<response, reading, exc, df, total_kwh, df_before, other>>

\* lines 19-23: all four secrets are present
LoadSecrets ==
    /\ pc = "secrets"
    /\ pc' = "connect"
    /\ UNCHANGED <<energy_log, banner, placeholder, Locals>>

\* lines 24-26: a secret is missing
SecretsMissing ==
    /\ pc = "secrets"
    /\ banner' = "Could not find Tuya credentials"
    /\ pc' = st_stop("connect")
    /\ UNCHANGED <<energy_log, placeholder, Locals>>

\* lines 35-37: TuyaOpenAPI(...).connect() returns
Connect ==
    /\ pc = "connect"
    /\ pc' = "init"
    /\ UNCHANGED <<energy_log, banner, placeholder, Locals>>

\* lines 38-40: the constructor or connect() raises
ConnectFails ==
    /\ pc = "connect"
    /\ banner' = "Failed to connect to Tuya Cloud"
    /\ pc' = st_stop("init")
    /\ UNCHANGED <<energy_log, placeholder, Locals>>

\* init_data_log(): writes the header-only file unless the file exists
init_data_log(file) ==
    IF ~file.exists THEN [exists |-> TRUE, header |-> Columns, rows |-> <<>>]
    ELSE file

\* lines 68-71
InitDataLog ==
    /\ pc = "init"
    /\ energy_log' = init_data_log(energy_log)
    /\ placeholder' = NoContent
    /\ pc' = "poll"
    /\ UNCHANGED <<banner, Locals>>

-----------------------------------------------------------------------------
(* The script: one iteration of the while loop *)

\* response.get('success', False)
response_success(r) == IF "success" \in DOMAIN r THEN r.success ELSE FALSE

\* response.get('msg', 'Unknown Error')
response_msg(r) == IF "msg" \in DOMAIN r THEN r.msg ELSE "Unknown Error"

\* response['result'] exists and every item has 'code' and 'value'
WellFormed(r) ==
    /\ "result" \in DOMAIN r
    /\ \A i \in 1..Len(r.result) : {"code", "value"} \subseteq DOMAIN r.result[i]

\* {item['code']: item['value'] for item in response['result']}:
\* a later item replaces an earlier one with the same code
RECURSIVE status_map_of(_)
status_map_of(result) ==
    IF Len(result) = 0 THEN <<>>
    ELSE LET rest == status_map_of(SubSeq(result, 1, Len(result) - 1))
             last == result[Len(result)]
         IN  [c \in DOMAIN rest \cup {last.code} |->
                 IF c = last.code THEN last.value ELSE rest[c]]

\* status_map.get(code, 0)
status_get(m, code) == IF code \in DOMAIN m THEN m[code] ELSE 0

\* variant: power taken without the division by 10
extract_states_unscaled(m) ==
    [power   |-> [int |-> status_get(m, POWER_CODE), frac10 |-> 0],
     voltage |-> Div10(status_get(m, VOLTAGE_CODE)),
     current |-> status_get(m, CURRENT_CODE)]

\* lines 82-84
extract_states(m) ==
    [power   |-> Div10(status_get(m, POWER_CODE)),
     voltage |-> Div10(status_get(m, VOLTAGE_CODE)),
     current |-> status_get(m, CURRENT_CODE)]

\* variant: only request errors are caught
IsException_requests_only(e) == e = "ConnectionError"

\* `except Exception`: what the handler of line 104 catches
IsException(e) == e \in ExceptionClasses

\* variant: mode='w'
log_data_overwrite(file, now, power, voltage, current) ==
    [exists |-> TRUE, header |-> file.header,
     rows |-> <<Row(Str(now), power, voltage, current)>>]

\* log_data(): one row, the timestamp written as text, appended to the file
log_data(file, now, power, voltage, current) ==
    [exists |-> TRUE, header |-> file.header,
     rows |-> Append(file.rows, Row(Str(now), power, voltage, current))]

\* pd.read_csv(DATA_FILE): the rows under the header, timestamps as text
read_csv(file) == file.rows

ChartRows == 100

\* df.rename(columns={'timestamp':'index'}).set_index('index')['power_w'].tail(100)
chart_series(frame) ==
    LET n == Len(frame)
        first == IF n > ChartRows THEN n - ChartRows + 1 ELSE 1
    IN  [i \in 1..(n - first + 1) |->
            <<frame[first + i - 1].timestamp, frame[first + i - 1].power_w>>]

\* f"{total_kwh:.3f}": the value in thousandths of a kWh, rounded to nearest
format_3f(x) == (2000 * x.num + x.den) \div (2 * x.den)

\* line 76: openapi.get(...) returns
PollReturns ==
    /\ pc = "poll"
    /\ response' \in {r \in Responses :
                        \/ Len(energy_log.rows) < MaxLog
                        \/ ~(response_success(r) /\ WellFormed(r))}
    /\ pc' = "dispatch"
    /\ UNCHANGED <<energy_log, reading, exc, df, total_kwh, banner, placeholder,
                   df_before, other>>

\* line 76: openapi.get(...) raises, or the process is interrupted
PollRaises ==
    /\ pc = "poll"
    /\ exc' \in {"ConnectionError", "KeyboardInterrupt"}
    /\ pc' = "except"
    /\ UNCHANGED <<energy_log, response, reading, df, total_kwh, banner, placeholder,
                   df_before, other>>

\* lines 78-84 on a response that reports success
MapStatus ==
    /\ pc = "dispatch"
    /\ response_success(response)
    /\ IF WellFormed(response)
       THEN /\ reading' = extract_states(status_map_of(response.result))
            /\ pc' = "log"
            /\ exc' = exc
       ELSE /\ exc' = "KeyError"
            /\ pc' = "except"
            /\ reading' = reading
    /\ UNCHANGED <<energy_log, response, df, total_kwh, banner, placeholder,
                   df_before, other>>

\* lines 100-102: the API reports an error
ApiError ==
    /\ pc = "dispatch"
    /\ ~response_success(response)
    /\ placeholder' = [kind |-> "api_error", msg |-> response_msg(response)]
    /\ pc' = "sleep"
    /\ UNCHANGED <<energy_log, banner, Locals>>

\* line 88: log_data(power, voltage, current) with datetime.now() = now
LogData ==
    /\ pc = "log"
    /\ \E now \in Clock :
         energy_log' = log_data(energy_log, now, reading.power, reading.voltage,
                                reading.current)
    /\ pc' = "compute"
    /\ UNCHANGED <<banner, placeholder, Locals>>

\* line 88: the file cannot be opened for appending
LogDataRaises ==
    /\ pc = "log"
    /\ exc' = "OSError"
    /\ pc' = "except"
    /\ UNCHANGED <<energy_log, response, reading, df, total_kwh, banner, placeholder,
                   df_before, other>>

\* lines 89-99: read the log back, accumulate, render
Compute ==
    /\ pc = "compute"
    /\ \E k \in calculate_total_kwh(read_csv(energy_log)) :
          /\ total_kwh' = k
          /\ df' = caller_frame_after(read_csv(energy_log))
          /\ df_before' = read_csv(energy_log)
          /\ placeholder' =
                [kind |-> "metrics",
                 power |-> reading.power,
                 voltage |-> reading.voltage,
                 current |-> reading.current,
                 total |-> format_3f(k),
                 chart |-> chart_series(caller_frame_after(read_csv(energy_log)))]
    /\ pc' = "sleep"
    /\ UNCHANGED <<energy_log, response, reading, exc, banner, other>>

\* line 89: pd.read_csv raises
ReadRaises ==
    /\ pc = "compute"
    /\ exc' = "OSError"
    /\ pc' = "except"
    /\ UNCHANGED <<energy_log, response, reading, df, total_kwh, banner, placeholder,
                   df_before, other>>

\* lines 104-107: the handler, or the exception leaving the script
Except ==
    /\ pc = "except"
    /\ IF IsException(exc)
       THEN /\ placeholder' = [kind |-> "exception", msg |-> exc]
            /\ pc' = "sleep"
       ELSE /\ placeholder' = placeholder
            /\ pc' = "terminated"
    /\ exc' = "none"
    /\ UNCHANGED <<energy_log, response, reading, df, total_kwh, banner,
                   df_before, other>>

\* line 110
Sleep ==
    /\ pc = "sleep"
    /\ pc' = "poll"
    /\ UNCHANGED <<energy_log, banner, placeholder, Locals>>

\* the script is started again: the file is all that survives
Restart ==
    /\ pc = "terminated"
    /\ pc' = "secrets"
    /\ response' = NoResponse
    /\ reading' = NoReading
    /\ exc' = "none"
    /\ df' = <<>>
    /\ total_kwh' = Zero
    /\ banner' = "none"
    /\ placeholder' = NoContent
    /\ df_before' = <<>>
    /\ UNCHANGED <<energy_log, other>>

Step ==
    \/ LoadSecrets \/ SecretsMissing \/ Connect \/ ConnectFails \/ InitDataLog
    \/ PollReturns \/ PollRaises \/ MapStatus \/ ApiError
    \/ LogData \/ LogDataRaises \/ Compute \/ ReadRaises \/ Except \/ Sleep

Next == Step \/ Restart

Spec == Init /\ [][Next]_vars

\* the interpreter does not stop inside the loop: the except handler, the
\* else branch and the return of time.sleep(30) are taken once reached
FairSpec == Spec /\ WF_vars(Except) /\ WF_vars(ApiError) /\ WF_vars(Sleep)

-----------------------------------------------------------------------------
(* Helpers of the properties below *)

\* a kWh value in units of 1/72,000,000 kWh (a twentieth of a joule)
Scaled(x) == x.num * ((20 * 3600000) \div x.den)

KwhLeq(a, b) == Scaled(a) <= Scaled(b)

Tenths(x) == 10 * x.int + x.frac10

\* the trapezoidal sum over adjacent pairs, in twentieths of a joule:
\* ((p[i-1] + p[i]) / 2) * (t[i] - t[i-1]) with p in tenths of a watt
RECURSIVE Trapezoid20(_)
Trapezoid20(s) ==
    IF Len(s) < 2 THEN 0
    ELSE Trapezoid20(SubSeq(s, 1, Len(s) - 1))
         + (Tenths(s[Len(s) - 1].power_w) + Tenths(s[Len(s)].power_w))
           * (s[Len(s)].timestamp.t - s[Len(s) - 1].timestamp.t)

Called == pc \in {"returned", "compared"}

DistinctTimestamps(frame) ==
    \A i, j \in 1..Len(frame) : i # j => frame[i].timestamp.t # frame[j].timestamp.t

StrictlyIncreasing(frame) ==
    \A i \in 1..(Len(frame) - 1) : frame[i].timestamp.t < frame[i + 1].timestamp.t

HundredWatts == [int |-> 100, frac10 |-> 0]

TwoReadingsExample ==
    /\ Len(df_before) = 2
    /\ df_before[1].timestamp.t = 0 /\ df_before[2].timestamp.t = 10
    /\ df_before[1].power_w = HundredWatts /\ df_before[2].power_w = HundredWatts

-----------------------------------------------------------------------------
(* Properties of calculate_total_kwh, checked under CalcSpec *)

\* C1: for 2 or more readings the value returned is the trapezoidal sum over
\* the readings arranged ascending by timestamp, divided by 3,600,000; two
\* readings 10 s apart at 100 W give 1000 J / 3,600,000.
C1_TrapezoidalSum ==
    /\ (Called /\ Len(df_before) >= 2) =>
          /\ ~IsNaN(total_kwh)
          /\ \E s \in Arrangements(df_before) :
                /\ Ascending(s)
                /\ Scaled(total_kwh) = Trapezoid20(s)
    /\ (Called /\ TwoReadingsExample) =>
          total_kwh.num * 3600000 = 1000 * total_kwh.den

C1_Witness ==
    /\ pc = "returned"
    /\ TwoReadingsExample
    /\ total_kwh = [num |-> 1, den |-> 3600]

\* C2 as claimed: a call on any ordering of the readings, equal timestamps
\* included, returns what a call on the pre-sorted sequence returns.
C2_OrderIndependent_AsClaimed ==
    (pc = "compared" /\ other.kind = "presorted") => total_kwh = other.ret

\* C2 amended: the same, for readings whose timestamps are pairwise distinct.
C2_OrderIndependent ==
    (pc = "compared" /\ other.kind = "presorted" /\ DistinctTimestamps(df_before))
        => total_kwh = other.ret

C2_Witness ==
    /\ pc = "compared"
    /\ other.kind = "presorted"
    /\ DistinctTimestamps(df_before)
    /\ Len(df_before) = 3
    /\ ~Ascending(df_before)
    /\ total_kwh = other.ret
    /\ total_kwh.num > 0

AppendedAfterLast ==
    /\ pc = "compared"
    /\ other.kind = "appended"
    /\ Len(df_before) > 0 =>
          other.arg[Len(other.arg)].timestamp.t > df_before[Len(df_before)].timestamp.t

C4_NoSideEffect ==
    Called => df = df_before

\* C8: with non-negative powers the value returned is a non-negative number,
\* whatever the order of the timestamps and with equal timestamps.
C8_NonNegative ==
    Called => (~IsNaN(total_kwh) /\ total_kwh.num >= 0 /\ total_kwh.den > 0)

C8_Witness ==
    /\ pc = "returned"
    /\ Len(df_before) = 3
    /\ ~Ascending(df_before)
    /\ ~DistinctTimestamps(df_before)
    /\ total_kwh.num > 0

\* C9: over 0 or 1 readings the value returned is exactly 0.0.
C9_FewerThanTwo ==
    /\ (Called /\ Len(df_before) < 2) => total_kwh = Zero
    /\ (pc = "compared" /\ Len(other.arg) < 2) => other.ret = Zero

C9_Witness ==
    /\ pc = "returned"
    /\ Len(df_before) = 1
    /\ Tenths(df_before[1].power_w) > 0
    /\ total_kwh = Zero

-----------------------------------------------------------------------------
(* Properties of the script, checked under Spec and FairSpec *)

IsPrefix(a, b) == Len(a) <= Len(b) /\ SubSeq(b, 1, Len(a)) = a

Reported(r) == "success" \in DOMAIN r /\ r.success

Complete(r) ==
    /\ "result" \in DOMAIN r
    /\ \A i \in 1..Len(r.result) : DOMAIN r.result[i] = {"code", "value"}

HasCode(r, code) == \E i \in 1..Len(r.result) : r.result[i].code = code

\* the raw value a response carries for a code: the last item with that code,
\* 0 when the code is absent
RawOf(r, code) ==
    LET idx == {i \in 1..Len(r.result) : r.result[i].code = code}
    IN  IF idx = {} THEN 0
        ELSE r.result[CHOOSE i \in idx : \A j \in idx : j <= i].value

LastRow == energy_log.rows[Len(energy_log.rows)]

\* the log keeps its header and its rows, and grows by at most one row, which
\* only log_data writes, in an iteration whose poll succeeded
AppendOnlyStep ==
    /\ energy_log.exists =>
          (energy_log'.exists /\ energy_log'.header = energy_log.header)
    /\ IsPrefix(energy_log.rows, energy_log'.rows)
    /\ Len(energy_log'.rows) <= Len(energy_log.rows) + 1
    /\ energy_log'.rows # energy_log.rows =>
          /\ pc = "log" /\ pc' = "compute"
          /\ Reported(response) /\ Complete(response)
          /\ energy_log'.rows[Len(energy_log'.rows)] \in
                {Row(Str(t), reading.power, reading.voltage, reading.current) :
                    t \in Clock}

C3_LoopTotalMonotone ==
    [][ (pc = "compute" /\ pc' = "sleep" /\ StrictlyIncreasing(energy_log.rows)) =>
           /\ KwhLeq(total_kwh, total_kwh')
           /\ placeholder.kind = "metrics" => placeholder'.total >= placeholder.total
      ]_vars

TransientFailure ==
    \/ pc = "except" /\ exc \in {"ConnectionError", "KeyError", "OSError"}
    \/ pc = "dispatch" /\ ~Reported(response)

\* C6: an iteration that fails (the API reports an error, the request raises,
\* the response is malformed, logging or reading back raises) leads to the
\* next poll with the failure shown in the placeholder.
C6_FailureNeverEndsLoop ==
    TransientFailure ~>
        (pc = "poll" /\ placeholder.kind \in {"api_error", "exception"})

C6_Witness ==
    /\ pc = "poll"
    /\ placeholder.kind = "exception"
    /\ placeholder.msg = "OSError"
    /\ Len(energy_log.rows) > 0

FatalShown == banner # "none"

\* C7: once a fatal startup error is shown the script is stopped and stays
\* stopped: no connection attempt, no poll, no change to the log file.
C7_FatalStartupStops ==
    [][ /\ FatalShown' => pc' = "stopped"
        /\ FatalShown =>
              /\ pc' = "stopped"
              /\ energy_log' = energy_log
              /\ response' = response ]_vars

C7_Witness ==
    /\ banner = "Failed to connect to Tuya Cloud"
    /\ pc = "stopped"
    /\ Len(energy_log.rows) > 0

\* C10: power_w and voltage_v are the raw values divided by 10 (235 gives
\* 23.5), current_ma is the raw value (1500 gives 1500), an absent code
\* counts as raw 0, and the reading so mapped is the one that is logged.
C10_StatusMapping ==
    /\ pc \in {"log", "compute"} =>
          /\ Tenths(reading.power) = RawOf(response, "cur_power")
          /\ reading.power.frac10 \in 0..9
          /\ Tenths(reading.voltage) = RawOf(response, "cur_voltage")
          /\ reading.voltage.frac10 \in 0..9
          /\ reading.current = RawOf(response, "cur_current")
          /\ RawOf(response, "cur_power") = 235 =>
                reading.power = [int |-> 23, frac10 |-> 5]
          /\ RawOf(response, "cur_current") = 1500 => reading.current = 1500
    /\ pc = "compute" =>
          /\ LastRow.power_w = reading.power
          /\ LastRow.voltage_v = reading.voltage
          /\ LastRow.current_ma = reading.current
    /\ (pc = "except" /\ exc = "KeyError") => ~Complete(response)

C10_Witness ==
    /\ pc = "compute"
    /\ ~HasCode(response, "cur_power")
    /\ HasCode(response, "cur_current")
    /\ LastRow.power_w = [int |-> 0, frac10 |-> 0]
    /\ LastRow.current_ma = 1500

====
